---- MODULE Spec2Model ----
(***************************************************************************)
(* A model of the flag registry and parsing engine of src/flag/flag.py:    *)
(* FlagSet.var and the typed declaration wrappers, FlagSet.parse_one and   *)
(* FlagSet.parse with the error-handling policy, and the Value classes     *)
(* the parser calls into, with the duration grammar of src/flag/time.py    *)
(* and the pointers Ptr, AttrRef and KeyRef of src/flag/pointer.py.        *)
(*                                                                         *)
(* Strings are sequences of one-character strings, so that the character   *)
(* tests of parse_one (s[0], s[1], the split at the first "=") are         *)
(* modelled as the code performs them.                                     *)
(***************************************************************************)
EXTENDS Integers, Sequences, FiniteSets, TLC

VARIABLES
    error_handling,  \* FlagSet.error_handling (fixed at construction)
    parsed,          \* FlagSet.parsed
    formal,          \* FlagSet._formal : name -> Flag
    actual,          \* FlagSet._actual : name -> Flag
    args,            \* FlagSet.args
    undef,           \* FlagSet._undef  : name -> position of the set call
    cell,            \* the storage bound to each declared flag's Value
    usage_calls,     \* number of times FlagSet.usage has been invoked
    calls,           \* the calls made to func-flag callbacks, in order
    arguments,       \* the list handed to the running / last parse call
    pc,              \* "idle", "scanning", "crashed" or "exited"
    outcome,         \* how the last operation ended
    dispatches,      \* times the except clause of parse has run
    visited,         \* the flags the last visit / visit_all gave its visitor
    val,             \* a Value object a program holds: its class and storage
    handle,          \* a Ptr, AttrRef or KeyRef and what it refers to
    result,          \* how the last call on val or handle ended
    parses           \* number of times the program has called parse

vars == <<error_handling, parsed, formal, actual, args, undef, cell,
          usage_calls, calls, arguments, pc, outcome, dispatches, visited,
          val, handle, result, parses>>

-----------------------------------------------------------------------------
(* Bounds and input sets *)

MaxArgs == 2
MaxFlags == 2
\* The number of times a program calls parse.
MaxParses == 2
\* The longest duration, in seconds, a program formats.
MaxSeconds == 3725

ErrorHandling == {"RaiseOnError", "ExitOnError", "PanicOnError"}

\* The storage objects a caller can hand to a *_var declaration: the three
\* forms of flag/pointer.py and a caller-written Pointer that also offers
\* the method set.
StorageForms == {"Ptr", "AttrRef", "KeyRef", "SetPointer"}

\* What a func-flag callback can do when it is called.
CallbackOutcomes == {"return", "ValueError", "Error", "RuntimeError"}

\* The declarations the calling program may make: name, Value class, default.
DeclInputs ==
    { [name |-> <<"b">>, kind |-> "Bool",     value |-> FALSE],
      [name |-> <<"h">>, kind |-> "Bool",     value |-> FALSE],
      [name |-> <<"n">>, kind |-> "Int",      value |-> 0],
      [name |-> <<"h","e","l","p">>, kind |-> "String", value |-> <<"0">>],
      [name |-> <<"d">>, kind |-> "Duration", value |-> 5],
      [name |-> <<"f">>, kind |-> "Float",    value |-> 0] }

FuncNames == { <<"c">> }

\* The command-line tokens argument lists are built from.
Tokens ==
    { <<"-","b">>, <<"-","-","b">>, <<"-","b","=","f">>, <<"-","b","=","x">>,
      <<"-","n">>, <<"-","-","n","=","1">>,
      <<"-","d">>, <<"-","c">>,
      <<"-","h">>, <<"-","-","h","e","l","p">>,
      <<"-","h","e","l","p","=","1","=","x">>, <<"-","z">>,
      <<"-","-">>, <<"-">>, <<"-","-","-","b">>, <<"-","=","b">>,
      <<"1">>, <<"1","m">>, <<>> }

ArgLists == UNION { [1..k -> Tokens] : k \in 0..MaxArgs }

-----------------------------------------------------------------------------
(* Strings *)

startswith(s, c) == Len(s) > 0 /\ s[1] = c

contains(s, c) == \E i \in 1..Len(s) : s[i] = c

\* Index of the first c in s, or 0: the loop of parse_one that looks for "=".
find(s, c) ==
    IF contains(s, c)
    THEN CHOOSE i \in 1..Len(s) : s[i] = c /\ \A j \in 1..(i - 1) : s[j] # c
    ELSE 0

Digits == <<"0", "1", "2", "3", "4", "5", "6", "7", "8", "9">>

IsDigit(c) == \E k \in 1..10 : Digits[k] = c

DigitValue(c) == (CHOOSE k \in 1..10 : Digits[k] = c) - 1

RECURSIVE digits_value(_)
digits_value(s) ==
    IF s = <<>> THEN 0
    ELSE 10 * digits_value(SubSeq(s, 1, Len(s) - 1)) + DigitValue(s[Len(s)])

\* Python's int(string) over the model's alphabet: an optional sign and one
\* or more decimal digits; anything else raises ValueError.
int_ok(s) ==
    LET body == IF startswith(s, "-") \/ startswith(s, "+") THEN Tail(s) ELSE s
    IN  body # <<>> /\ \A i \in 1..Len(body) : IsDigit(body[i])

int_value(s) ==
    IF startswith(s, "-") THEN 0 - digits_value(Tail(s))
    ELSE IF startswith(s, "+") THEN digits_value(Tail(s))
    ELSE digits_value(s)

RECURSIVE str_nat(_)
str_nat(n) ==
    IF n < 10 THEN <<Digits[n + 1]>>
    ELSE str_nat(n \div 10) \o <<Digits[(n % 10) + 1]>>

\* Python's str(i) of an int.
str_int(i) == IF i < 0 THEN <<"-">> \o str_nat(0 - i) ELSE str_nat(i)

\* Python's float(string) over the model's alphabet, in which no string
\* holds a point, an exponent or the name of an infinity: the strings float
\* accepts are those int accepts, and the float is the whole number.
float_ok(s) == int_ok(s)

float_value(s) == int_value(s)

\* The code point of a character of the model's flag names.
ord(c) ==
    CASE c = "-" -> 45
      [] c = "=" -> 61
      [] c = "a" -> 97
      [] c = "b" -> 98
      [] c = "c" -> 99
      [] c = "d" -> 100
      [] c = "e" -> 101
      [] c = "f" -> 102
      [] c = "h" -> 104
      [] c = "l" -> 108
      [] c = "n" -> 110
      [] c = "p" -> 112
      [] c = "x" -> 120
      [] c = "z" -> 122

\* Python's a < b on strings: code points compared position by position,
\* a proper prefix first.
str_lt(a, b) ==
    \E i \in 1..(Len(b)) :
        /\ i <= Len(a) + 1
        /\ \A j \in 1..(i - 1) : a[j] = b[j]
        /\ i = Len(a) + 1 \/ ord(a[i]) < ord(b[i])

-----------------------------------------------------------------------------
(* flag/strconv.py and flag/time.py *)

TrueLiterals ==
    { <<"1">>, <<"t">>, <<"T">>, <<"T","R","U","E">>, <<"t","r","u","e">>,
      <<"T","r","u","e">> }

FalseLiterals ==
    { <<"0">>, <<"f">>, <<"F">>, <<"F","A","L","S","E">>,
      <<"f","a","l","s","e">>, <<"F","a","l","s","e">> }

\* Variant of parse_bool that reads the empty string as false.
parse_bool_empty_false(string) ==
    IF string \in TrueLiterals THEN [exc |-> "none", v |-> TRUE]
    ELSE IF string \in FalseLiterals \cup {<<>>}
    THEN [exc |-> "none", v |-> FALSE]
    ELSE [exc |-> "SyntaxError", v |-> FALSE]

\* strconv.parse_bool: the value, or the SyntaxError it raises.
parse_bool(string) ==
    IF string \in TrueLiterals THEN [exc |-> "none", v |-> TRUE]
    ELSE IF string \in FalseLiterals THEN [exc |-> "none", v |-> FALSE]
    ELSE [exc |-> "SyntaxError", v |-> FALSE]

format_bool(b) == IF b THEN <<"t","r","u","e">> ELSE <<"f","a","l","s","e">>

\* Duration.__str__, on a duration held as its total of seconds.
Duration_str(total) ==
    LET mins  == total \div 60
        hours == total \div 3600
        secs  == total % 60
        fmt0  == str_nat(secs) \o <<"s">>
        fmt1  == IF mins # 0 THEN str_nat(mins) \o <<"m">> \o fmt0 ELSE fmt0
    IN  IF hours # 0 THEN str_nat(hours) \o <<"h">> \o fmt1 ELSE fmt1

\* One pass of the loop of parse_duration on the character c: st holds
\* hours, mins, secs and buf.
duration_step(st, c) ==
    IF c = "s" THEN [st EXCEPT !.secs = st.buf, !.buf = <<>>]
    ELSE IF c = "m" THEN [st EXCEPT !.mins = st.buf, !.buf = <<>>]
    ELSE IF c = "h" THEN [st EXCEPT !.hours = st.buf, !.buf = <<>>]
    ELSE [st EXCEPT !.buf = st.buf \o <<c>>]

\* The loop of parse_duration over the first n characters of s.
RECURSIVE duration_scan(_, _)
duration_scan(s, n) ==
    IF n = 0
    THEN [hours |-> <<>>, mins |-> <<>>, secs |-> <<>>, buf |-> <<>>]
    ELSE duration_step(duration_scan(s, n - 1), s[n])

\* `int(p) if p else 0` of parse_duration: whether it raises, and its value.
duration_part_ok(p) == p = <<>> \/ int_ok(p)

duration_part(p) == IF p = <<>> THEN 0 ELSE int_value(p)

\* time.parse_duration: the duration in seconds, or the Panic it raises.
parse_duration(s) ==
    LET st == duration_scan(s, Len(s))
    IN  IF st.buf # <<>> THEN [exc |-> "Panic", v |-> 0]
        ELSE IF ~(/\ duration_part_ok(st.hours)
                  /\ duration_part_ok(st.mins)
                  /\ duration_part_ok(st.secs))
        THEN [exc |-> "Panic", v |-> 0]
        ELSE [exc |-> "none",
              v |-> 3600 * duration_part(st.hours)
                    + 60 * duration_part(st.mins) + duration_part(st.secs)]

-----------------------------------------------------------------------------
(* Exceptions *)

\* The classes made with Error.from_string, and Error itself: what an
\* `except Error` clause catches.
ErrorClasses == {"Error", "HelpError", "ParseError", "SyntaxError"}

isinstance_Error(cls) == cls \in ErrorClasses

NoException == [cls |-> "none", msg |-> "", code |-> 0]

Raised(cls, msg) == [cls |-> cls, msg |-> msg, code |-> 0]

\* sys.exit(code)
SystemExit(code) == [cls |-> "SystemExit", msg |-> "", code |-> code]

\* How an operation of the FlagSet ended: the exception that left it, and
\* for a declaration the name and the Value class it was called with.
Outcome(op, exc, name, kind) ==
    [op |-> op, exc |-> exc, name |-> name, kind |-> kind]

-----------------------------------------------------------------------------
(* Values and storage *)

\* Whether a storage object has the method `set` that Value calls.
has_set(form) == form = "SetPointer"

\* Variant of is_bool_flag in which a BoolValue is not a boolean flag.
is_bool_flag_only_func(kind) == kind = "BoolFunc"

is_bool_flag(kind) == kind \in {"Bool", "BoolFunc"}

\* Variant of Value_set in which an int Value that has been given a value
\* other than zero keeps it.
Value_set_first_wins(kind, old, string, cb) ==
    CASE kind = "Bool" ->
           LET r == parse_bool(string)
           IN  [exc |-> r.exc, v |-> IF r.exc = "none" THEN r.v ELSE old]
      [] kind = "Int" ->
           IF int_ok(string)
           THEN [exc |-> "none",
                 v |-> IF old # 0 THEN old ELSE int_value(string)]
           ELSE [exc |-> "ValueError", v |-> old]
      [] kind = "String" -> [exc |-> "none", v |-> string]
      [] kind = "Float" ->
           IF float_ok(string) THEN [exc |-> "none", v |-> float_value(string)]
           ELSE [exc |-> "ValueError", v |-> old]
      [] kind = "Duration" ->
           LET r == parse_duration(string)
           IN  [exc |-> r.exc, v |-> IF r.exc = "none" THEN r.v ELSE old]
      [] kind \in {"Func", "BoolFunc"} ->
           [exc |-> IF cb = "return" THEN "none" ELSE cb, v |-> old]

\* Value.set of each Value class on the raw string: the exception it
\* raises, if any, and the value it writes through the storage. A func
\* flag's callback ends the way cb says.
Value_set(kind, old, string, cb) ==
    CASE kind = "Bool" ->
           LET r == parse_bool(string)
           IN  [exc |-> r.exc, v |-> IF r.exc = "none" THEN r.v ELSE old]
      [] kind = "Int" ->
           IF int_ok(string) THEN [exc |-> "none", v |-> int_value(string)]
           ELSE [exc |-> "ValueError", v |-> old]
      [] kind = "String" -> [exc |-> "none", v |-> string]
      [] kind = "Float" ->
           IF float_ok(string) THEN [exc |-> "none", v |-> float_value(string)]
           ELSE [exc |-> "ValueError", v |-> old]
      [] kind = "Duration" ->
           LET r == parse_duration(string)
           IN  [exc |-> r.exc, v |-> IF r.exc = "none" THEN r.v ELSE old]
      [] kind \in {"Func", "BoolFunc"} ->
           [exc |-> IF cb = "return" THEN "none" ELSE cb, v |-> old]

\* set_value: Value.set with a ValueError turned into ParseError.
set_value(kind, old, string, cb) ==
    LET r == Value_set(kind, old, string, cb)
    IN  IF r.exc = "ValueError" THEN [r EXCEPT !.exc = "ParseError"] ELSE r

\* str(value) of a freshly constructed Value: the def_value of its Flag.
\* FloatValue.__str__ calls strconv.format_float with one argument of the
\* three it requires, which raises TypeError.
Value_str(kind, v) ==
    CASE kind = "Bool" -> [exc |-> "none", s |-> format_bool(v)]
      [] kind = "Int" -> [exc |-> "none", s |-> str_int(v)]
      [] kind = "String" -> [exc |-> "none", s |-> v]
      [] kind = "Duration" -> [exc |-> "none", s |-> Duration_str(v)]
      [] kind = "Float" -> [exc |-> "TypeError", s |-> <<>>]
      [] kind \in {"Func", "BoolFunc"} -> [exc |-> "none", s |-> <<>>]

Flag(name, usage, kind, def_value) ==
    [name |-> name, usage |-> usage, kind |-> kind, def_value |-> def_value]

-----------------------------------------------------------------------------
(* FlagSet.var *)

\* Variant of var_check that lets a declared name be declared again.
var_check_redefines(kind, v, name, fm, ud) ==
    IF startswith(name, "-") THEN Raised("Panic", "begins with -")
    ELSE IF contains(name, "=") THEN Raised("Panic", "contains =")
    ELSE IF Value_str(kind, v).exc # "none"
    THEN Raised(Value_str(kind, v).exc, "")
    ELSE IF name \in DOMAIN ud THEN Raised("Panic", "set before being defined")
    ELSE NoException

\* The exception FlagSet.var raises for a Value of this kind and this name,
\* in the order of its checks.
var_check(kind, v, name, fm, ud) ==
    IF startswith(name, "-") THEN Raised("Panic", "begins with -")
    ELSE IF contains(name, "=") THEN Raised("Panic", "contains =")
    ELSE IF Value_str(kind, v).exc # "none"
    THEN Raised(Value_str(kind, v).exc, "")
    ELSE IF name \in DOMAIN fm THEN Raised("Panic", "flag redefined")
    ELSE IF name \in DOMAIN ud THEN Raised("Panic", "set before being defined")
    ELSE NoException

\* FlagSet.var on a constructed Value bound to storage holding v.
var(kind, v, name, usage) ==
    LET exc == var_check(kind, v, name, formal, undef)
    IN  /\ outcome' = Outcome("var", exc, name, kind)
        /\ IF exc.cls = "none"
           THEN /\ formal' = (name :> Flag(name, usage, kind,
                                           Value_str(kind, v).s)) @@ formal
                /\ cell' = (name :> v) @@ cell
                /\ pc' = "idle"
           ELSE /\ UNCHANGED <<formal, cell>>
                /\ pc' = "crashed"
        /\ UNCHANGED <<error_handling, parsed, actual, args, undef,
                       usage_calls, calls, arguments, dispatches, visited,
                       val, handle, result, parses>>

\* bool_var, int_var, string_var, float_var, duration_var: construct the
\* Value over the caller's storage (Value.__init__ calls p.set(value)), then
\* var.
typed_var(d, form) ==
    /\ pc = "idle"
    /\ IF has_set(form)
       THEN var(d.kind, d.value, d.name, <<"u">>)
       ELSE /\ outcome' = Outcome("var", Raised("AttributeError", "set"),
                                   d.name, d.kind)
            /\ pc' = "crashed"
            /\ UNCHANGED <<error_handling, parsed, formal, actual, args, undef,
                           cell, usage_calls, calls, arguments, dispatches,
                           visited,
                           val, handle, result, parses>>

\* bool_, int, string, float, duration: p = Ptr(value), then the *_var
\* method with p.
typed(d) == typed_var(d, "Ptr")

\* func: FuncValue(fn) keeps fn in a Ptr of its own, then var.
func(name) ==
    /\ pc = "idle"
    /\ var("Func", "fn", name, <<"u">>)

\* bool_func: FuncValue(fn), the class func builds, then var. The callback
\* the program passes is bool_fn.
bool_func(name) ==
    /\ pc = "idle"
    /\ var("Func", "bool_fn", name, <<"u">>)

-----------------------------------------------------------------------------
(* FlagSet.parse_one *)

\* Variant of failf that forgets the flags set so far.
failf_rollback(msg, ar, ac, ce, call) ==
    [ret |-> "raise", exc |-> Raised("Error", msg), args |-> ar,
     actual |-> <<>>, cell |-> ce, usage |-> 1, call |-> call]

\* failf: call the usage callback and raise Error(msg).
failf(msg, ar, ac, ce, call) ==
    [ret |-> "raise", exc |-> Raised("Error", msg), args |-> ar,
     actual |-> ac, cell |-> ce, usage |-> 1, call |-> call]

\* Variant of non_flag that does not look at the first character.
non_flag_by_length(s) == Len(s) < 2

\* `len(s) < 2 or s[0] != "-"`: s is not a flag, and scanning stops at it.
non_flag(s) == Len(s) < 2 \/ s[1] # "-"

\* Variants of num_minuses that never look for a second dash, or always
\* take one.
num_minuses_one(s) == 1

num_minuses_two(s) == 2

\* How many leading dashes parse_one strips from s (len(s) >= 2, s[0] = "-").
num_minuses(s) == IF s[2] = "-" THEN 2 ELSE 1

\* Variant of bad_syntax that lets a leading "=" through.
bad_syntax_dash_only(name) == name = <<>> \/ name[1] = "-"

\* `not name or name[0] == "-" or name[0] == "="`
bad_syntax(name) == name = <<>> \/ name[1] = "-" \/ name[1] = "="

\* Variant of split that takes an empty inline value for none.
split_empty_is_absent(name0) ==
    LET i == find(name0, "=")
    IN  IF i # 0
        THEN [name |-> SubSeq(name0, 1, i - 1), has_value |-> i < Len(name0),
              value |-> SubSeq(name0, i + 1, Len(name0))]
        ELSE [name |-> name0, has_value |-> FALSE, value |-> <<>>]

\* The loop that cuts name at its first "=": the name, whether there is an
\* inline value, and the value.
split(name0) ==
    LET i == find(name0, "=")
    IN  IF i # 0
        THEN [name |-> SubSeq(name0, 1, i - 1), has_value |-> TRUE,
              value |-> SubSeq(name0, i + 1, Len(name0))]
        ELSE [name |-> name0, has_value |-> FALSE, value |-> <<>>]

\* Variant of is_help that knows only the long name.
is_help_long_only(name) == name = <<"h","e","l","p">>

\* `name == "help" or name == "h"`
is_help(name) == name = <<"h","e","l","p">> \/ name = <<"h">>

\* Variant of takes_next that never takes the next argument.
takes_next_never(has_value, args1) == FALSE

\* `not has_value and self.args`: the value is the next argument.
takes_next(has_value, args1) == ~has_value /\ args1 # <<>>

\* The part of parse_one after the flag has been looked up: set the value
\* and record the flag in actual.
set_flag(flag, name, has_value0, value0, args1, ac, ce, cb) ==
    LET is_func == flag.kind \in {"Func", "BoolFunc"}
        call(v) == IF is_func THEN <<[name |-> name, value |-> v]>> ELSE <<>>
        seen(ar, v) ==
            [ret |-> "seen", exc |-> NoException, args |-> ar,
             actual |-> (name :> flag) @@ ac,
             cell |-> [ce EXCEPT ![name] = v], usage |-> 0, call |-> <<>>]
        raw(ar, cls, v) ==
            [ret |-> "raise", exc |-> Raised(cls, ""), args |-> ar,
             actual |-> ac, cell |-> ce, usage |-> 0, call |-> call(v)]
    IN  IF is_bool_flag(flag.kind)
        THEN LET value == IF has_value0 THEN value0 ELSE <<"t","r","u","e">>
                 r == set_value(flag.kind, ce[name], value, cb)
             IN  IF isinstance_Error(r.exc)
                 THEN failf(IF has_value0 THEN "invalid boolean value"
                            ELSE "invalid boolean flag", args1, ac, ce,
                            call(value))
                 ELSE IF r.exc # "none" THEN raw(args1, r.exc, value)
                 ELSE [seen(args1, r.v) EXCEPT !.call = call(value)]
        ELSE LET next == takes_next(has_value0, args1)
                 has_value == has_value0 \/ next
                 value == IF next THEN args1[1] ELSE value0
                 args2 == IF next THEN Tail(args1) ELSE args1
                 r == set_value(flag.kind, ce[name], value, cb)
             IN  IF ~has_value
                 THEN failf("flag needs an argument", args2, ac, ce, <<>>)
                 ELSE IF isinstance_Error(r.exc)
                 THEN failf("invalid value", args2, ac, ce, call(value))
                 ELSE IF r.exc # "none" THEN raw(args2, r.exc, value)
                 ELSE [seen(args2, r.v) EXCEPT !.call = call(value)]

\* Variant of shift that takes the last token of args.
shift_last(ar) == SubSeq(ar, 1, Len(ar) - 1)

\* Variant of shift that leaves the flag token at the head of args.
shift_nothing(ar) == ar

\* self.args = self.args[1:], once the token is known to be a flag.
shift(ar) == Tail(ar)

\* One call of parse_one on a FlagSet with these formal and actual maps,
\* storage and args: what it returns or raises, and the state it leaves.
parse_one(fm, ac, ce, ar, cb) ==
    LET stop(a) == [ret |-> "stop", exc |-> NoException, args |-> a,
                    actual |-> ac, cell |-> ce, usage |-> 0, call |-> <<>>]
    IN  IF ar = <<>> THEN stop(ar)
        ELSE LET s == ar[1]
             IN  IF non_flag(s) THEN stop(ar)
                 ELSE IF num_minuses(s) = 2 /\ Len(s) = 2 THEN stop(Tail(ar))
                 ELSE LET name0 == SubSeq(s, num_minuses(s) + 1, Len(s))
                          sp == split(name0)
                      IN  IF bad_syntax(name0)
                          THEN failf("bad flag syntax", ar, ac, ce, <<>>)
                          ELSE IF sp.name \notin DOMAIN fm
                          THEN IF is_help(sp.name)
                               THEN [failf("flag: help requested", shift(ar),
                                           ac, ce, <<>>)
                                       EXCEPT !.exc.cls = "HelpError"]
                               ELSE failf("flag provided but not defined",
                                          shift(ar), ac, ce, <<>>)
                          ELSE set_flag(fm[sp.name], sp.name, sp.has_value,
                                        sp.value, shift(ar), ac, ce, cb)

-----------------------------------------------------------------------------
(* FlagSet.parse *)

\* The except clause of parse: what becomes of an Error under each policy.
dispatch(policy, exc) ==
    IF policy = "RaiseOnError" THEN [pc |-> "idle", exc |-> exc]
    ELSE IF policy = "ExitOnError"
    THEN [pc |-> "exited",
          exc |-> IF exc.cls = "HelpError" THEN SystemExit(0)
                  ELSE SystemExit(2)]
    ELSE [pc |-> "crashed", exc |-> Raised("Panic", exc.msg)]

\* Variant of parse that starts from an empty actual.
parse_fresh(arglist) ==
    /\ pc = "idle"
    /\ parsed' = TRUE
    /\ args' = arglist
    /\ arguments' = arglist
    /\ actual' = <<>>
    /\ pc' = "scanning"
    /\ outcome' = Outcome("parse", NoException, <<>>, "")
    /\ parses' = parses + 1
    /\ UNCHANGED <<error_handling, formal, undef, cell, usage_calls,
                   calls, dispatches, visited,
                   val, handle, result>>

\* Variant of parse that leaves parsed as it is.
parse_unmarked(arglist) ==
    /\ pc = "idle"
    /\ args' = arglist
    /\ arguments' = arglist
    /\ pc' = "scanning"
    /\ outcome' = Outcome("parse", NoException, <<>>, "")
    /\ parses' = parses + 1
    /\ UNCHANGED <<error_handling, parsed, formal, actual, undef, cell,
                   usage_calls, calls, dispatches, visited,
                   val, handle, result>>

\* parse(arguments), up to the loop.
parse(arglist) ==
    /\ pc = "idle"
    /\ parsed' = TRUE
    /\ args' = arglist
    /\ arguments' = arglist
    /\ pc' = "scanning"
    /\ outcome' = Outcome("parse", NoException, <<>>, "")
    /\ parses' = parses + 1
    /\ UNCHANGED <<error_handling, formal, actual, undef, cell, usage_calls,
                   calls, dispatches, visited,
                   val, handle, result>>

\* One iteration of the loop of parse: parse_one, and the except clause.
parse_loop(cb) ==
    /\ pc = "scanning"
    /\ \E r \in {parse_one(formal, actual, cell, args, cb)} :
         \E d \in {IF r.ret # "raise" THEN [pc |-> "idle", exc |-> NoException]
                   ELSE IF isinstance_Error(r.exc.cls)
                   THEN dispatch(error_handling, r.exc)
                   ELSE [pc |-> "crashed", exc |-> r.exc]} :
           /\ args' = r.args
           /\ actual' = r.actual
           /\ cell' = r.cell
           /\ usage_calls' = usage_calls + r.usage
           /\ calls' = calls \o r.call
           /\ pc' = IF r.ret = "seen" THEN "scanning" ELSE d.pc
           /\ outcome' = Outcome("parse", d.exc, <<>>, "")
           /\ dispatches' = IF r.ret = "raise" /\ isinstance_Error(r.exc.cls)
                             THEN dispatches + 1 ELSE dispatches
    /\ UNCHANGED <<error_handling, parsed, formal, undef, arguments, visited,
                   val, handle, result, parses>>

-----------------------------------------------------------------------------
(* FlagSet.set, FlagSet.visit, FlagSet.visit_all *)

\* errorf(msg): an Error carrying msg, which set raises.
errorf(msg) == Raised("Error", msg)

\* f"{info.filename}:{info.lineno}" of inspect.stack()[0]: the frame of set
\* itself, so always the same place.
set_location == "flag.py:214"

\* Variant of set_missing that escalates to a Panic.
set_missing_panics(name, ud) ==
    [undef |-> (name :> set_location) @@ ud,
     exc |-> Raised("Panic", "no such flag")]

\* The except KeyError branch of set: the place of the call is recorded
\* under the name and an Error is raised.
set_missing(name, ud) ==
    [undef |-> (name :> set_location) @@ ud, exc |-> errorf("no such flag")]

\* Variant of sort_flags that sorts downwards.
sort_flags_reversed(flags) ==
    [i \in 1..Cardinality(DOMAIN flags) |->
        flags[CHOOSE x \in DOMAIN flags :
                Cardinality({y \in DOMAIN flags : str_lt(x, y)}) = i - 1]]

\* FlagSet.set(name, value). cb is how the callback of a func flag ends.
set(name, value, cb) ==
    /\ pc = "idle"
    /\ IF name \notin DOMAIN formal
       THEN /\ undef' = set_missing(name, undef).undef
            /\ outcome' = Outcome("set", set_missing(name, undef).exc, name, "")
            /\ pc' = IF isinstance_Error(set_missing(name, undef).exc.cls)
                      THEN "idle" ELSE "crashed"
            /\ UNCHANGED <<actual, cell, calls>>
       ELSE \E r \in {set_value(formal[name].kind, cell[name], value, cb)} :
              /\ calls' = IF formal[name].kind \in {"Func", "BoolFunc"}
                           THEN Append(calls, [name |-> name, value |-> value])
                           ELSE calls
              /\ outcome' = Outcome("set",
                                     IF r.exc = "none" THEN NoException
                                     ELSE Raised(r.exc, ""),
                                     name, formal[name].kind)
              /\ IF r.exc = "none"
                 THEN /\ cell' = [cell EXCEPT ![name] = r.v]
                      /\ actual' = (name :> formal[name]) @@ actual
                      /\ pc' = "idle"
                 ELSE /\ UNCHANGED <<cell, actual>>
                      /\ pc' = IF isinstance_Error(r.exc) THEN "idle"
                                ELSE "crashed"
              /\ UNCHANGED undef
    /\ UNCHANGED <<error_handling, parsed, formal, args, usage_calls,
                   arguments, dispatches, visited,
                   val, handle, result, parses>>

\* sort_flags: the Flags of a registry as a list sorted on f.name. The
\* names are the keys of the dict and differ, so the flag at position i is
\* the one with i - 1 names below its own.
sort_flags(flags) ==
    [i \in 1..Cardinality(DOMAIN flags) |->
        flags[CHOOSE x \in DOMAIN flags :
                Cardinality({y \in DOMAIN flags : str_lt(y, x)}) = i - 1]]

\* visit_all(fn) and visit(fn): fn is called on each flag of the sorted
\* list, in order; visited is what the visitor has received.
visit_all ==
    /\ pc = "idle"
    /\ visited' = sort_flags(formal)
    /\ outcome' = Outcome("visit_all", NoException, <<>>, "")
    /\ UNCHANGED <<error_handling, parsed, formal, actual, args, undef, cell,
                   usage_calls, calls, arguments, pc, dispatches,
                   val, handle, result, parses>>

\* Variant of visit that walks formal.
visit_formal ==
    /\ pc = "idle"
    /\ visited' = sort_flags(formal)
    /\ outcome' = Outcome("visit", NoException, <<>>, "")
    /\ UNCHANGED <<error_handling, parsed, formal, actual, args, undef, cell,
                   usage_calls, calls, arguments, pc, dispatches,
                   val, handle, result, parses>>

visit ==
    /\ pc = "idle"
    /\ visited' = sort_flags(actual)
    /\ outcome' = Outcome("visit", NoException, <<>>, "")
    /\ UNCHANGED <<error_handling, parsed, formal, actual, args, undef, cell,
                   usage_calls, calls, arguments, pc, dispatches,
                   val, handle, result, parses>>

-----------------------------------------------------------------------------
(* Value objects: str(value) and value.set(string) *)

\* The fields of the FlagSet, which a call on a Value or on a pointer that
\* no flag holds leaves alone.
flagset == <<error_handling, parsed, formal, actual, args, undef, cell,
             usage_calls, calls, arguments, pc, outcome, dispatches, visited,
             parses>>

\* How a call on a Value or on a pointer ended: the exception that left it,
\* the argument it was given and what it returned.
Result(op, exc, arg, ret) == [op |-> op, exc |-> exc, arg |-> arg, ret |-> ret]

NoResult == Result("none", "none", <<>>, <<>>)

NoValue == [kind |-> "none", v |-> <<>>]

NoHandle == [form |-> "none", at |-> "None"]

\* str(val): Value.__str__ or the override of the Value's class.
Value__str__ ==
    /\ val.kind # "none"
    /\ \E r \in {Value_str(val.kind, val.v)} :
         result' = Result("str", r.exc, <<>>, r.s)
    /\ UNCHANGED <<flagset, val, handle>>

\* val.set(string): the set method of the Value's class, which writes
\* through the storage only when the string parses.
Value_set_string(string) ==
    /\ val.kind # "none"
    /\ \E r \in {Value_set(val.kind, val.v, string, "return")} :
         /\ val' = [val EXCEPT !.v = r.v]
         /\ result' = Result("set", r.exc, string, <<>>)
    /\ UNCHANGED <<flagset, handle>>

-----------------------------------------------------------------------------
(* flag/pointer.py: Ptr, AttrRef, KeyRef *)

\* Python's None, and the state of an attribute or of a key that the
\* object or the dict does not have.
None == "None"

Absent == "absent"

\* A handle is its class and what it refers to: the value field of a Ptr,
\* the attribute obj.name of an AttrRef, the entry dict[key] of a KeyRef.
Ptr(v) == [form |-> "Ptr", at |-> v]

AttrRef(attr) == [form |-> "AttrRef", at |-> attr]

KeyRef(entry) == [form |-> "KeyRef", at |-> entry]

\* panic("nil pointer dereference")
nil_dereference == Result("deref", "Panic", None, None)

Ptr_set_(h, v) == [h EXCEPT !.at = v]

Ptr_deref(h) ==
    IF h.at # None THEN Result("deref", "none", None, h.at)
    ELSE nil_dereference

Ptr_is_nil(h) ==
    Result("is_nil", "none", None, IF h.at = None THEN "True" ELSE "False")

AttrRef_set_(h, v) == [h EXCEPT !.at = v]

AttrRef_deref(h) ==
    IF h.at = Absent THEN nil_dereference
    ELSE IF h.at # None THEN Result("deref", "none", None, h.at)
    ELSE nil_dereference

AttrRef_is_nil(h) ==
    IF h.at = Absent THEN Result("is_nil", "none", None, "True")
    ELSE IF h.at = None THEN Result("is_nil", "none", None, "True")
    ELSE Result("is_nil", "none", None, "False")

\* KeyRef.__init__ keeps the dict as self.dict, and set_ writes self.dict.
KeyRef_set_(h, v) == [h EXCEPT !.at = v]

\* KeyRef.deref and KeyRef.is_nil read self.dict_, an attribute no KeyRef
\* is given: the read raises AttributeError.
KeyRef_deref(h) == Result("deref", "AttributeError", None, None)

KeyRef_is_nil(h) == Result("is_nil", "AttributeError", None, None)

\* p.set_(v), p.deref() and p.is_nil() on the pointer a program holds.
set_(v) ==
    /\ handle.form # "none"
    /\ handle' = CASE handle.form = "Ptr" -> Ptr_set_(handle, v)
                   [] handle.form = "AttrRef" -> AttrRef_set_(handle, v)
                   [] handle.form = "KeyRef" -> KeyRef_set_(handle, v)
    /\ result' = Result("set_", "none", v, None)
    /\ UNCHANGED <<flagset, val>>

deref ==
    /\ handle.form # "none"
    /\ result' = CASE handle.form = "Ptr" -> Ptr_deref(handle)
                   [] handle.form = "AttrRef" -> AttrRef_deref(handle)
                   [] handle.form = "KeyRef" -> KeyRef_deref(handle)
    /\ UNCHANGED <<flagset, val, handle>>

is_nil ==
    /\ handle.form # "none"
    /\ result' = CASE handle.form = "Ptr" -> Ptr_is_nil(handle)
                   [] handle.form = "AttrRef" -> AttrRef_is_nil(handle)
                   [] handle.form = "KeyRef" -> KeyRef_is_nil(handle)
    /\ UNCHANGED <<flagset, val, handle>>

\* The caller writes its own attribute or entry, or deletes it, without the
\* handle.
assign(v) ==
    /\ handle.form \in {"AttrRef", "KeyRef"}
    /\ handle' = [handle EXCEPT !.at = v]
    /\ result' = Result("assign", "none", v, None)
    /\ UNCHANGED <<flagset, val>>

-----------------------------------------------------------------------------
(* The FlagSet and the program that uses it *)

\* FlagSet.__init__
Init ==
    /\ error_handling \in ErrorHandling
    /\ parsed = FALSE
    /\ formal = <<>>
    /\ actual = <<>>
    /\ args = <<>>
    /\ undef = <<>>
    /\ cell = <<>>
    /\ usage_calls = 0
    /\ calls = <<>>
    /\ arguments = <<>>
    /\ pc = "idle"
    /\ outcome = Outcome("init", NoException, <<>>, "")
    /\ dispatches = 0
    /\ visited = <<>>
    /\ val = NoValue
    /\ handle = NoHandle
    /\ result = NoResult
    /\ parses = 0

\* Variant of init that hands the declared flags over to the new FlagSet.
init_keeps_formal ==
    /\ pc = "idle"
    /\ error_handling' = "ExitOnError"
    /\ parsed' = FALSE
    /\ actual' = <<>>
    /\ args' = <<>>
    /\ undef' = <<>>
    /\ arguments' = <<>>
    /\ outcome' = Outcome("init", NoException, <<>>, "")
    /\ UNCHANGED <<formal, cell, usage_calls, calls, pc, dispatches, visited,
                   val, handle, result, parses>>

\* init(): command_line is bound to a new FlagSet with the ExitOnError
\* policy; the flags of the previous instance and their storage are no
\* longer reached through it.
init ==
    /\ pc = "idle"
    /\ error_handling' = "ExitOnError"
    /\ parsed' = FALSE
    /\ formal' = <<>>
    /\ actual' = <<>>
    /\ args' = <<>>
    /\ undef' = <<>>
    /\ cell' = <<>>
    /\ arguments' = <<>>
    /\ outcome' = Outcome("init", NoException, <<>>, "")
    /\ UNCHANGED <<usage_calls, calls, pc, dispatches, visited,
                   val, handle, result, parses>>

\* lookup(name): self._formal[name], which raises KeyError when name is not
\* a key of the dict.
lookup(name) ==
    /\ pc = "idle"
    /\ IF name \in DOMAIN formal
       THEN /\ result' = Result("lookup", "none", name, formal[name])
            /\ outcome' = Outcome("lookup", NoException, name, "")
            /\ pc' = "idle"
       ELSE /\ result' = Result("lookup", "KeyError", name, None)
            /\ outcome' = Outcome("lookup", Raised("KeyError", ""), name, "")
            /\ pc' = "crashed"
    /\ UNCHANGED <<error_handling, parsed, formal, actual, args, undef, cell,
                   usage_calls, calls, arguments, dispatches, visited,
                   val, handle, parses>>

\* Room for one more declared flag, or a name that is declared already.
MayDeclare(name) ==
    Cardinality(DOMAIN formal) < MaxFlags \/ name \in DOMAIN formal

\* The ways the callback can end are an input of the next parse_one only
\* when that parse_one calls a callback.
CallbackChoices ==
    IF parse_one(formal, actual, cell, args, "return").call # <<>>
    THEN CallbackOutcomes
    ELSE {"return"}

\* The calling program declares its flags, then calls parse once.
Declaring == pc = "idle" /\ ~parsed

Next ==
    \/ Declaring /\ \E d \in DeclInputs : MayDeclare(d.name) /\ typed(d)
    \/ Declaring /\ \E d \in DeclInputs, form \in StorageForms :
                        MayDeclare(d.name) /\ typed_var(d, form)
    \/ Declaring /\ \E name \in FuncNames : MayDeclare(name) /\ func(name)
    \/ Declaring /\ \E name \in FuncNames :
                        MayDeclare(name) /\ bool_func(name)
    \/ Declaring /\ \E arglist \in ArgLists : parse(arglist)
    \/ pc = "scanning" /\ \E cb \in CallbackChoices : parse_loop(cb)

Spec == Init /\ [][Next]_vars

\* A program that works on the registry: it declares flags, also under
\* names var refuses and under names that are taken, sets flags by name,
\* visits them, and parses a short command line once.
RegistryDecls ==
    DeclInputs \cup
    { [name |-> <<"b">>, kind |-> "Bool", value |-> TRUE],
      [name |-> <<"n">>, kind |-> "Float", value |-> 0],
      [name |-> <<>>, kind |-> "Bool", value |-> FALSE],
      [name |-> <<"-","x">>, kind |-> "Int", value |-> 0],
      [name |-> <<"a","=">>, kind |-> "String", value |-> <<"0">>] }

SetNames == { <<"b">>, <<"n">>, <<"d">> }

SetValues == { <<"1">>, <<"x">>, <<"1","m">> }

RegistryArgLists ==
    { <<>>, << <<"-","b">> >>, << <<"-","n">> >>, << <<"-","n","=","1">> >> }

\* The program declares and sets until it starts to visit; once it has
\* visited, it only visits.
Working == pc = "idle" /\ outcome.op \notin {"visit", "visit_all"}

NextRegistry ==
    \/ Working /\ \E d \in RegistryDecls : MayDeclare(d.name) /\ typed(d)
    \/ Working /\ \E d \in RegistryDecls, form \in StorageForms :
                      MayDeclare(d.name) /\ typed_var(d, form)
    \/ Working /\ \E name \in FuncNames : MayDeclare(name) /\ func(name)
    \/ Working /\ \E name \in SetNames, value \in SetValues :
                      set(name, value, "return")
    \/ visit_all
    \/ visit
    \/ Working /\ ~parsed /\ \E arglist \in RegistryArgLists : parse(arglist)
    \/ pc = "scanning" /\ \E cb \in CallbackChoices : parse_loop(cb)

SpecRegistry == Init /\ [][NextRegistry]_vars

\* A program that keeps working with its FlagSet: it declares flags over
\* storage that has the set method, sets them and looks them up by name,
\* calls parse up to MaxParses times, and, when the FlagSet is command_line,
\* may call init and start again.
SessionDecls ==
    { [name |-> <<"b">>, kind |-> "Bool", value |-> FALSE],
      [name |-> <<"n">>, kind |-> "Int", value |-> 0],
      [name |-> <<"h","e","l","p">>, kind |-> "String", value |-> <<"0">>] }

CommandLines ==
    { <<>>,
      << <<"-","h","e","l","p","=","1","=","x">> >>,
      << <<"-","h","e","l","p","=">>, <<"1">> >>,
      << <<"-","n","=">>, <<"1">> >>,
      << <<"-","b","=","f">>, <<"-","b">> >>,
      << <<"-","b">>, <<"1">> >>,
      << <<"-","n">>, <<"2">>, <<"-","n">>, <<"1">> >>,
      << <<"-","c">>, <<"1">>, <<"-","c">>, <<"x">> >> }

LookupNames == { <<"b">>, <<"n">>, <<"z">> }

\* The program looks flags up when it is done with the rest.
InSession == pc = "idle" /\ outcome.op # "lookup"

NextSession ==
    \/ InSession /\ \E d \in SessionDecls :
                        MayDeclare(d.name) /\ typed_var(d, "SetPointer")
    \/ InSession /\ \E name \in FuncNames : MayDeclare(name) /\ func(name)
    \/ InSession /\ \E name \in LookupNames \ {<<"z">>} :
                        set(name, <<"1">>, "return")
    \/ \E name \in LookupNames : lookup(name)
    \/ InSession /\ parses < MaxParses
                 /\ \E arglist \in CommandLines : parse(arglist)
    \/ pc = "scanning" /\ \E cb \in CallbackChoices : parse_loop(cb)
    \/ InSession /\ error_handling = "ExitOnError" /\ init

SpecSession == Init /\ [][NextSession]_vars

\* parse is synchronous: once called, its loop runs on until it leaves.
SpecSessionFair ==
    SpecSession /\ WF_vars(\E cb \in CallbackOutcomes : parse_loop(cb))

\* A program that holds one Value over a storage object that has the set
\* method Value calls: it formats the Value and sets it from a string, the
\* string str gave it last or one of its own.
ValueInputs ==
    { [kind |-> "Bool", v |-> TRUE], [kind |-> "Bool", v |-> FALSE],
      [kind |-> "Int", v |-> 0], [kind |-> "Int", v |-> 22],
      [kind |-> "Int", v |-> 0 - 3],
      [kind |-> "String", v |-> <<>>], [kind |-> "String", v |-> <<"x">>],
      [kind |-> "Float", v |-> 0], [kind |-> "Float", v |-> 2],
      [kind |-> "Duration", v |-> 0], [kind |-> "Duration", v |-> 5],
      [kind |-> "Duration", v |-> 125], [kind |-> "Duration", v |-> 3600],
      [kind |-> "Duration", v |-> 3725] }

ValueStrings ==
    TrueLiterals \cup FalseLiterals \cup
    { <<>>, <<"x">>, <<"y","e","s">>, <<"t","R","U","E">>, <<"2">>,
      <<"-","3">>, <<"9","0">>, <<"0","s">>, <<"9","0","s">>, <<"5","m">>,
      <<"2","m","5","s">>, <<"1","h","2","m","5","s">>, <<"1","h">>,
      <<"5","s","2","m">>, <<"1","m","2","m">>, <<"5","m","3">>,
      <<"m">>, <<"x","s">>, <<"x","m","2","m">> }

InitValues ==
    /\ error_handling = "ExitOnError"
    /\ parsed = FALSE
    /\ formal = <<>>
    /\ actual = <<>>
    /\ args = <<>>
    /\ undef = <<>>
    /\ cell = <<>>
    /\ usage_calls = 0
    /\ calls = <<>>
    /\ arguments = <<>>
    /\ pc = "idle"
    /\ outcome = Outcome("init", NoException, <<>>, "")
    /\ dispatches = 0
    /\ visited = <<>>
    /\ val \in ValueInputs
    /\ handle = NoHandle
    /\ result = NoResult
    /\ parses = 0

\* The string str(value) returned, when that was the last call.
Formatted == IF result.op = "str" /\ result.exc = "none" THEN {result.ret} ELSE {}

\* The durations the program formats are bounded: a duration that a round
\* trip has made longer than MaxSeconds is not formatted again.
Formatting == val.kind = "Duration" => val.v <= MaxSeconds

NextValues ==
    \/ Formatting /\ Value__str__
    \/ \E string \in ValueStrings \cup Formatted : Value_set_string(string)

SpecValues == InitValues /\ [][NextValues]_vars

\* A program that holds one pointer of flag/pointer.py, made empty or over
\* a value, an attribute or a dict entry: it writes and reads through the
\* pointer and asks whether it is nil.
PointerValues == {"False", "True", "0", "5", "''", "'x'"}

Handles ==
    {Ptr(v) : v \in PointerValues \cup {None}}
    \cup {AttrRef(a) : a \in PointerValues \cup {None, Absent}}
    \cup {KeyRef(e) : e \in PointerValues \cup {None, Absent}}

InitPointer ==
    /\ error_handling = "ExitOnError"
    /\ parsed = FALSE
    /\ formal = <<>>
    /\ actual = <<>>
    /\ args = <<>>
    /\ undef = <<>>
    /\ cell = <<>>
    /\ usage_calls = 0
    /\ calls = <<>>
    /\ arguments = <<>>
    /\ pc = "idle"
    /\ outcome = Outcome("init", NoException, <<>>, "")
    /\ dispatches = 0
    /\ visited = <<>>
    /\ val = NoValue
    /\ handle \in Handles
    /\ result = NoResult
    /\ parses = 0

NextPointer ==
    \/ \E v \in PointerValues \cup {None} : set_(v)
    \/ deref
    \/ is_nil
    \/ \E v \in PointerValues \cup {None, Absent} : assign(v)

SpecPointer == InitPointer /\ [][NextPointer]_vars

-----------------------------------------------------------------------------
(* Command-line syntax and failure reports, as the claims state them *)

Dashes(k) == IF k = 1 THEN <<"-">> ELSE <<"-", "-">>

\* The readings of s as a flag token: one or two dashes, a name that is not
\* empty, does not begin with "-" and holds no "=", and then nothing or "="
\* and a value. A token has at most one such reading.
FlagForms(s) ==
    { [dashes |-> q[1], name |-> SubSeq(s, q[1] + 1, q[2]),
       has_value |-> q[2] < Len(s), value |-> SubSeq(s, q[2] + 2, Len(s))] :
      q \in { r \in (1..2) \X (1..Len(s)) :
                /\ r[1] < r[2]
                /\ SubSeq(s, 1, r[1]) = Dashes(r[1])
                /\ s[r[1] + 1] # "-"
                /\ \A i \in (r[1] + 1)..r[2] : s[i] # "="
                /\ r[2] = Len(s) \/ s[r[2] + 1] = "=" } }

IsFlagToken(s) == FlagForms(s) # {}

FlagForm(s) == CHOOSE f \in FlagForms(s) : TRUE

\* The same flag token written with the other number of dashes.
OtherDashes(s) ==
    Dashes(3 - FlagForm(s).dashes)
        \o SubSeq(s, FlagForm(s).dashes + 1, Len(s))

HelpRequested == "flag: help requested"

\* The parse call has ended (returned, raised, exited or panicked).
ParseEnded == outcome.op = "parse" /\ pc # "scanning"

ParseSucceeded == ParseEnded /\ pc = "idle" /\ outcome.exc.cls = "none"

ParseFailed == ParseEnded /\ outcome.exc.cls # "none"

\* parse left with the failure msg, the way the policy surfaces it: the
\* Error raised, the process exited (0 for help, 2 otherwise), or a Panic.
FailedWith(at, o, policy, msg) ==
    /\ o.op = "parse"
    /\ CASE policy = "RaiseOnError" ->
              /\ at = "idle"
              /\ o.exc.cls = IF msg = HelpRequested THEN "HelpError" ELSE "Error"
              /\ o.exc.msg = msg
         [] policy = "ExitOnError" ->
              /\ at = "exited"
              /\ o.exc.cls = "SystemExit"
              /\ o.exc.code = IF msg = HelpRequested THEN 0 ELSE 2
         [] policy = "PanicOnError" ->
              /\ at = "crashed"
              /\ o.exc.cls = "Panic"
              /\ o.exc.msg = msg

\* parse is about to look at a token.
AtToken == pc = "scanning" /\ args # <<>>

\* parse is about to look at a flag token whose name is declared.
AtDeclaredFlag ==
    /\ AtToken
    /\ IsFlagToken(Head(args))
    /\ FlagForm(Head(args)).name \in DOMAIN formal

-----------------------------------------------------------------------------
(* Claims *)

\* C2: a declared boolean flag written without an inline value is set to
\* true and takes only its own token from args, so that a following token
\* such as `true` stays in args; written with an inline boolean literal it
\* is set to what the literal says. Either way the flag is recorded in
\* actual and scanning goes on.
C2_BoolFlagTakesNoArgument ==
    [][ (/\ AtDeclaredFlag
         /\ formal[FlagForm(Head(args)).name].kind = "Bool"
         /\ \/ ~FlagForm(Head(args)).has_value
            \/ FlagForm(Head(args)).value \in TrueLiterals \cup FalseLiterals)
        => LET f == FlagForm(Head(args))
           IN  /\ args' = Tail(args)
               /\ cell'[f.name] = (~f.has_value \/ f.value \in TrueLiterals)
               /\ f.name \in DOMAIN actual'
               /\ pc' = "scanning"
               /\ usage_calls' = usage_calls ]_vars

\* parse of [-b, 1] has returned with b true and 1 the first of args.
C2_Witness ==
    /\ ParseSucceeded
    /\ arguments = << <<"-", "b">>, <<"1">> >>
    /\ <<"b">> \in DOMAIN actual
    /\ cell[<<"b">>] = TRUE
    /\ args = << <<"1">> >>

\* C3: at a token that does not start with a dash, or is exactly `-`,
\* parse returns without error; that token and all the tokens after it are
\* the args, in order, and no flag is set, however flag-shaped they are.
C3_StopsAtNonFlag ==
    [][ (/\ AtToken
         /\ \/ Head(args) = <<>>
            \/ Head(args)[1] # "-"
            \/ Head(args) = <<"-">>)
        => /\ pc' = "idle"
           /\ outcome' = Outcome("parse", NoException, <<>>, "")
           /\ args' = args
           /\ UNCHANGED <<cell, actual, usage_calls, calls>> ]_vars

\* parse of [1m, -b] has returned with both tokens in args and b not set.
C3_Witness ==
    /\ ParseSucceeded
    /\ arguments = << <<"1", "m">>, <<"-", "b">> >>
    /\ args = arguments
    /\ <<"b">> \in DOMAIN formal
    /\ <<"b">> \notin DOMAIN actual
    /\ cell[<<"b">>] = FALSE

\* C4: at the token `--` parse returns without error; the token is taken
\* out of args, the tokens after it are the args, and no flag is set.
C4_Terminator ==
    [][ (AtToken /\ Head(args) = <<"-", "-">>)
        => /\ pc' = "idle"
           /\ outcome' = Outcome("parse", NoException, <<>>, "")
           /\ args' = Tail(args)
           /\ UNCHANGED <<cell, actual, usage_calls, calls>> ]_vars

\* parse of [--, -b] has returned with args [-b] and b not set.
C4_Witness ==
    /\ ParseSucceeded
    /\ arguments = << <<"-", "-">>, <<"-", "b">> >>
    /\ args = << <<"-", "b">> >>
    /\ <<"b">> \in DOMAIN formal
    /\ <<"b">> \notin DOMAIN actual

\* C5: a flag token means the same with one dash and with two. Wherever
\* parse stands at a flag token, the same token written with the other
\* number of dashes gives the same result of parse_one: the same flag
\* values, the same actual, the same remaining args and the same error or
\* none, whatever a callback it calls does.
C5_DashesEquivalent ==
    (AtToken /\ IsFlagToken(Head(args)))
    => \A cb \in CallbackOutcomes :
         parse_one(formal, actual, cell,
                   <<OtherDashes(Head(args))>> \o Tail(args), cb)
           = parse_one(formal, actual, cell, args, cb)

\* parse of [--b, -b] has set b at the first token and stands at the second.
C5_Witness ==
    /\ AtToken
    /\ arguments = << <<"-", "-", "b">>, <<"-", "b">> >>
    /\ args = << <<"-", "b">> >>
    /\ <<"b">> \in DOMAIN actual
    /\ cell[<<"b">>] = TRUE

\* C6: a declared flag that is not boolean, written without an inline
\* value, takes the next token as its value, and that token is not left in
\* args; a string flag stores the token as it is and a func flag's callback
\* gets it. With no next token parse fails with "flag needs an argument",
\* reported through the usage callback, and no stored value changes.
C6_ValueFromNextToken ==
    [][ (/\ AtDeclaredFlag
         /\ ~FlagForm(Head(args)).has_value
         /\ formal[FlagForm(Head(args)).name].kind \notin {"Bool", "BoolFunc"})
        => LET name == FlagForm(Head(args)).name
           IN  IF Len(args) >= 2
               THEN /\ args' = Tail(Tail(args))
                    /\ formal[name].kind = "String"
                         => /\ cell'[name] = args[2]
                            /\ name \in DOMAIN actual'
                            /\ pc' = "scanning"
                    /\ formal[name].kind = "Func"
                         => calls' = Append(calls, [name |-> name,
                                                    value |-> args[2]])
               ELSE /\ FailedWith(pc', outcome', error_handling,
                                  "flag needs an argument")
                    /\ usage_calls' = usage_calls + 1
                    /\ args' = <<>>
                    /\ UNCHANGED <<cell, actual, calls>> ]_vars

\* Under RaiseOnError parse of [-b, -n] has set b and then failed at -n,
\* which has no value; n keeps its default.
C6_Witness ==
    /\ ParseFailed
    /\ error_handling = "RaiseOnError"
    /\ arguments = << <<"-", "b">>, <<"-", "n">> >>
    /\ {<<"b">>, <<"n">>} \subseteq DOMAIN formal
    /\ formal[<<"n">>].kind = "Int"
    /\ outcome.exc = Raised("Error", "flag needs an argument")
    /\ <<"n">> \notin DOMAIN actual
    /\ cell[<<"n">>] = 0
    /\ cell[<<"b">>] = TRUE
    /\ usage_calls = 1

\* C7: a flag token whose name is not declared makes parse fail, through
\* the usage callback and with no flag set: with "help requested" when the
\* name is help or h, with "flag provided but not defined" otherwise. A
\* token whose name is declared, h and help included, never ends in "help
\* requested".
C7_HelpOrUndeclared ==
    [][ (AtToken /\ IsFlagToken(Head(args)))
        => LET name == FlagForm(Head(args)).name
           IN  IF name \in DOMAIN formal
               THEN /\ outcome'.exc.msg # HelpRequested
                    /\ outcome'.exc.cls # "HelpError"
                    /\ outcome'.exc # SystemExit(0)
               ELSE /\ FailedWith(pc', outcome', error_handling,
                                  IF name \in {<<"h">>, <<"h","e","l","p">>}
                                  THEN HelpRequested
                                  ELSE "flag provided but not defined")
                    /\ usage_calls' = usage_calls + 1
                    /\ UNCHANGED <<cell, actual, calls>> ]_vars

\* Under RaiseOnError, with h declared and help not, parse of [-h, --help]
\* has set h as an ordinary flag and then failed with help requested.
C7_Witness ==
    /\ ParseFailed
    /\ error_handling = "RaiseOnError"
    /\ arguments = << <<"-", "h">>, <<"-", "-", "h", "e", "l", "p">> >>
    /\ <<"h">> \in DOMAIN actual
    /\ cell[<<"h">>] = TRUE
    /\ <<"h","e","l","p">> \notin DOMAIN formal
    /\ outcome.exc = Raised("HelpError", HelpRequested)
    /\ usage_calls = 1

\* What is left of a token that starts with a dash when one dash, or two if
\* it starts with two, are taken off.
StrippedName(s) ==
    SubSeq(s, IF Len(s) >= 2 /\ s[2] = "-" THEN 3 ELSE 2, Len(s))

\* This step of parse fails with "bad flag syntax" through the usage
\* callback and changes no flag.
BadSyntaxStep ==
    /\ FailedWith(pc', outcome', error_handling, "bad flag syntax")
    /\ usage_calls' = usage_calls + 1
    /\ UNCHANGED <<cell, actual, calls>>

\* C8 as stated: every token that starts with a dash and whose stripped
\* name is empty or begins with "-" or "=" is a bad-syntax failure. The
\* tokens `-` and `--` have an empty stripped name and are no failure.
C8_AsStated ==
    [][ (/\ AtToken
         /\ Head(args) # <<>>
         /\ Head(args)[1] = "-"
         /\ \/ StrippedName(Head(args)) = <<>>
            \/ StrippedName(Head(args))[1] \in {"-", "="})
        => BadSyntaxStep ]_vars

\* C8: a token that starts with a dash, is neither `-` nor `--`, and whose
\* name after one or two dashes are stripped begins with "-" or "=" makes
\* parse fail with "bad flag syntax", reported through the usage callback;
\* no flag value is changed by that token.
C8_BadSyntax ==
    [][ (/\ AtToken
         /\ Head(args) # <<>>
         /\ Head(args)[1] = "-"
         /\ Head(args) \notin {<<"-">>, <<"-", "-">>}
         /\ StrippedName(Head(args))[1] \in {"-", "="})
        => BadSyntaxStep ]_vars

\* Under RaiseOnError parse of [-b, -=b] has set b and then failed with bad
\* flag syntax at -=b.
C8_Witness ==
    /\ ParseFailed
    /\ error_handling = "RaiseOnError"
    /\ arguments = << <<"-", "b">>, <<"-", "=", "b">> >>
    /\ outcome.exc = Raised("Error", "bad flag syntax")
    /\ usage_calls = 1
    /\ <<"b">> \in DOMAIN actual
    /\ cell[<<"b">>] = TRUE

TypedKinds == {"Bool", "Int", "String", "Float", "Duration"}

\* The command line gives the flag of this form a value its Value accepts.
WellFormedFor(f, kind, text) ==
    IF kind = "Bool"
    THEN ~f.has_value \/ f.value \in TrueLiterals \cup FalseLiterals
    ELSE set_value(kind, 0, text, "return").exc = "none"

\* The value the command line gives: true for a bare boolean flag, else
\* what the Value reads from the text.
GivenValue(f, kind, text) ==
    IF kind = "Bool" /\ ~f.has_value THEN TRUE
    ELSE set_value(kind, 0, text, "return").v

\* parse of one well-formed flag token sequence flagpart for a declared
\* typed flag, followed by the non-flag token extra, returned without error
\* with the flag holding the given value and args = [extra].
ParsedAsGiven(f, text, extra) ==
    /\ ParseSucceeded
    /\ args = <<extra>>
    /\ f.name \in DOMAIN actual
    /\ cell[f.name] = GivenValue(f, formal[f.name].kind, text)

\* C1: bool, int, string, float and duration flags can be declared (a
\* declaration of a typed flag under a new, valid name raises nothing), and
\* when parse of a well-formed flag in one of the forms -name, -name=value,
\* -name value followed by one non-flag token has ended, it has ended
\* without error, the flag holds the value given and args is that one
\* trailing token.
C1_TestParse ==
    /\ (/\ outcome.op = "var"
        /\ outcome.kind \in TypedKinds
        /\ outcome.name \notin DOMAIN formal)
       => outcome.exc.cls = "none"
    /\ (/\ ParseEnded
        /\ Len(arguments) \in {2, 3}
        /\ IsFlagToken(arguments[1])
        /\ FlagForm(arguments[1]).name \in DOMAIN formal
        /\ formal[FlagForm(arguments[1]).name].kind \in TypedKinds
        /\ non_flag(arguments[Len(arguments)])
        /\ arguments[Len(arguments)] # <<"-">>)
       => LET f == FlagForm(arguments[1])
              kind == formal[f.name].kind
          IN  /\ (Len(arguments) = 2 /\ WellFormedFor(f, kind, f.value)
                  /\ (kind = "Bool" \/ f.has_value))
                 => ParsedAsGiven(f, f.value, arguments[2])
              /\ (Len(arguments) = 3 /\ kind # "Bool" /\ ~f.has_value
                  /\ WellFormedFor(f, kind, arguments[2]))
                 => ParsedAsGiven(f, arguments[2], arguments[3])

\* C9: under ExitOnError every step of parse that ends it with a failure
\* exits the process, with code 0 when the failure is help requested (an
\* undeclared flag named help or h) and with code 2 otherwise.
C9_ExitCodes ==
    [][ (/\ error_handling = "ExitOnError"
         /\ AtToken
         /\ pc' # "scanning"
         /\ outcome'.exc.cls # "none")
        => /\ pc' = "exited"
           /\ outcome'.exc.cls = "SystemExit"
           /\ outcome'.exc.code =
                IF /\ IsFlagToken(Head(args))
                   /\ FlagForm(Head(args)).name \notin DOMAIN formal
                   /\ FlagForm(Head(args)).name
                        \in {<<"h">>, <<"h","e","l","p">>}
                THEN 0 ELSE 2 ]_vars

\* C10: under PanicOnError a parse that has failed has left with a Panic,
\* and Panic is not an Error.
C10_PanicNotError ==
    (error_handling = "PanicOnError" /\ ParseFailed)
    => /\ pc = "crashed"
       /\ outcome.exc.cls = "Panic"
       /\ ~isinstance_Error(outcome.exc.cls)

\* A step of parse at a token that ends in a failure.
FailingStep == AtToken /\ outcome'.op = "parse" /\ outcome'.exc.cls # "none"

\* C11: the step of parse that fails is its last: the except clause of
\* parse has then run exactly once, under RaiseOnError the caller has an
\* Error in hand, and once parse has failed no flag is set or recorded and
\* no token is taken any more.
C11_StopsAtFirstFailure ==
    [][ /\ FailingStep
          => /\ pc' # "scanning"
             /\ dispatches' = 1
             /\ error_handling = "RaiseOnError"
                  => /\ pc' = "idle"
                     /\ isinstance_Error(outcome'.exc.cls)
        /\ ParseFailed => UNCHANGED <<cell, actual, args, dispatches>> ]_vars

\* C12: a parse that has failed has called the usage callback exactly once,
\* and that before the failure left parse; a parse that is under way or has
\* succeeded has not called it.
C12_UsageOnce ==
    /\ ParseFailed => usage_calls = 1
    /\ (pc = "scanning" \/ ParseSucceeded) => usage_calls = 0

\* A step in which var has been called and has returned or raised: a
\* declaration whose Value could be constructed (an AttributeError comes
\* from Value.__init__, before var is called).
VarStep ==
    pc = "idle" /\ outcome'.op = "var" /\ outcome'.exc.cls # "AttributeError"

\* C13: a call of var with a name that is in formal already ends in a
\* Panic and leaves formal as it was: the same names, each with the Flag
\* (value, usage, def_value) it had.
C13_Redefinition ==
    [][ (VarStep /\ outcome'.name \in DOMAIN formal)
        => /\ outcome'.exc.cls = "Panic"
           /\ formal' = formal ]_vars

\* A name the claims say var must refuse.
InvalidName(name) ==
    \/ name = <<>>
    \/ name[1] = "-"
    \/ \E i \in 1..Len(name) : name[i] = "="

\* C14: a call of var with a name that is empty, starts with "-" or
\* contains "=" ends in a Panic and adds nothing to formal, so that formal
\* never holds such a name.
C14_InvalidNames ==
    [][ /\ (VarStep /\ InvalidName(outcome'.name))
          => /\ outcome'.exc.cls = "Panic"
             /\ formal' = formal
        /\ \A name \in DOMAIN formal' : ~InvalidName(name) ]_vars

\* C15: once set has been called with a name that was not declared, every
\* call of var with that name ends in a Panic that reports the set made
\* before the definition, and the name is not added to formal.
C15_SetBeforeDeclare ==
    [][ (VarStep /\ outcome'.name \in DOMAIN undef)
        => /\ outcome'.exc = Raised("Panic", "set before being defined")
           /\ formal' = formal ]_vars

\* A step in which set has been called and has returned or raised.
SetStep == pc = "idle" /\ outcome'.op = "set"

\* C16: set with a name that is not in formal raises a recoverable Error
\* ("no such flag") and leaves actual, formal, args and every stored value
\* as they were.
C16_SetUndeclared ==
    [][ (SetStep /\ outcome'.name \notin DOMAIN formal)
        => /\ outcome'.exc.cls \in ErrorClasses
           /\ outcome'.exc.msg = "no such flag"
           /\ pc' = "idle"
           /\ UNCHANGED <<actual, formal, args, cell>> ]_vars

\* b is declared and set, and then set with the undeclared name n has
\* raised its Error.
C16_Witness ==
    /\ outcome = Outcome("set", Raised("Error", "no such flag"), <<"n">>, "")
    /\ <<"n">> \notin DOMAIN formal
    /\ <<"n">> \in DOMAIN undef
    /\ <<"b">> \in DOMAIN actual
    /\ pc = "idle"

\* C17: set with a declared name either returns, and then the stored value
\* is what the flag's Value reads from the raw string and actual maps the
\* name to the Flag (all other entries as before), or it raises a
\* recoverable Error, and then actual and the stored values are as before.
C17_SetDeclared ==
    [][ (SetStep /\ outcome'.name \in DOMAIN formal)
        => LET name == outcome'.name
           IN  IF outcome'.exc.cls = "none"
               THEN /\ \E raw \in SetValues :
                         set_value(formal[name].kind, cell[name], raw,
                                   "return")
                           = [exc |-> "none", v |-> cell'[name]]
                    /\ actual' = (name :> formal[name]) @@ actual
                    /\ pc' = "idle"
               ELSE /\ outcome'.exc.cls \in ErrorClasses
                    /\ pc' = "idle"
                    /\ UNCHANGED <<actual, cell>> ]_vars

\* a <= b in lexicographic order of code points.
RECURSIVE LexLeq(_, _)
LexLeq(a, b) ==
    IF a = <<>> THEN TRUE
    ELSE IF b = <<>> THEN FALSE
    ELSE IF a[1] = b[1] THEN LexLeq(Tail(a), Tail(b))
    ELSE ord(a[1]) < ord(b[1])

\* C18: what visit and visit_all hand to the visitor is in non-decreasing
\* lexicographic order of name.
C18_VisitSorted ==
    \A i, j \in DOMAIN visited :
        i < j => LexLeq(visited[i].name, visited[j].name)

\* visit_all has walked n and b, b first.
C18_Witness ==
    /\ outcome.op = "visit_all"
    /\ Len(visited) = 2
    /\ visited[1].name = <<"b">>
    /\ visited[2].name = <<"n">>

\* The flags of a list, and the flags of a registry.
Listed(list) == { list[i] : i \in DOMAIN list }

Registered(flags) == { flags[name] : name \in DOMAIN flags }

\* C19: visit hands the visitor exactly the flags of actual, each once, and
\* visit_all exactly the flags of formal, each once; actual changes only in
\* set and parse, so that before them visit yields nothing.
C19_VisitYieldsActual ==
    [][ /\ (pc = "idle" /\ outcome'.op = "visit")
          => /\ Listed(visited') = Registered(actual)
             /\ Len(visited') = Cardinality(DOMAIN actual)
        /\ (pc = "idle" /\ outcome'.op = "visit_all")
          => /\ Listed(visited') = Registered(formal)
             /\ Len(visited') = Cardinality(DOMAIN formal)
        /\ actual' # actual => outcome'.op \in {"set", "parse"} ]_vars

\* Two flags are declared, one of them has been set, and visit has yielded
\* that one alone.
C19_Witness ==
    /\ outcome.op = "visit"
    /\ Cardinality(DOMAIN formal) = 2
    /\ Len(visited) = 1
    /\ DOMAIN actual = {visited[1].name}

\* C20: a declaration of a bool, int, string, float or duration flag under
\* a new, valid name succeeds and leaves the default in the storage, where
\* Value.get and the pointer's deref read it.
C20_DefaultStored ==
    [][ (/\ pc = "idle"
         /\ outcome'.op = "var"
         /\ outcome'.kind \in TypedKinds
         /\ ~InvalidName(outcome'.name)
         /\ outcome'.name \notin DOMAIN formal
         /\ outcome'.name \notin DOMAIN undef)
        => /\ outcome'.exc.cls = "none"
           /\ outcome'.name \in DOMAIN cell'
           /\ \E d \in RegistryDecls :
                /\ d.name = outcome'.name
                /\ d.kind = outcome'.kind
                /\ cell'[d.name] = d.value ]_vars

\* The step in which the string str(val) has just returned is handed to
\* val.set.
RoundTripStep ==
    /\ result.op = "str"
    /\ result.exc = "none"
    /\ result'.op = "set"
    /\ result'.arg = result.ret

\* C21: for a Value of any type holding any value of its domain, setting
\* the Value from the string str() has returned succeeds and leaves the
\* stored value as it was; for a duration, whatever its total of seconds.
C21_RoundTrip ==
    [][ RoundTripStep => (result'.exc = "none" /\ val'.v = val.v) ]_vars

\* A duration as the claim renders it: hours, minutes left after whole
\* hours (0 to 59) and seconds, the first two only when they are not zero.
Rendered(total) ==
    LET hours == total \div 3600
        mins  == (total % 3600) \div 60
        secs  == total % 60
    IN  (IF hours # 0 THEN str_nat(hours) \o <<"h">> ELSE <<>>)
        \o (IF mins # 0 THEN str_nat(mins) \o <<"m">> ELSE <<>>)
        \o str_nat(secs) \o <<"s">>

\* C22: str() of a Duration has the seconds always, the hours and the
\* minutes only when not zero, and the minutes are those left after whole
\* hours: 0 gives 0s, 125 gives 2m5s and 3725 gives 1h2m5s.
C22_Rendering ==
    (result.op = "str" /\ val.kind = "Duration")
    => /\ result.exc = "none"
       /\ result.ret = Rendered(val.v)
       /\ val.v = 0 => result.ret = <<"0","s">>
       /\ val.v = 125 => result.ret = <<"2","m","5","s">>
       /\ val.v = 3725 => result.ret = <<"1","h","2","m","5","s">>

\* The unit characters of a duration string, and the units of a string in
\* the order they appear.
DurationUnits == <<"h", "m", "s">>

IsUnit(c) == \E k \in 1..3 : DurationUnits[k] = c

UnitRank(c) == CHOOSE k \in 1..3 : DurationUnits[k] = c

\* A unit appears twice, or a unit comes before one it should follow.
Misordered(s) ==
    \E i, j \in 1..Len(s) :
        /\ i < j
        /\ IsUnit(s[i]) /\ IsUnit(s[j])
        /\ UnitRank(s[i]) >= UnitRank(s[j])

\* The last call was val.set(string) on a duration Value.
DurationSet == result.op = "set" /\ val.kind = "Duration"

\* C23: parse_duration faults on every string in which a unit is repeated
\* or the units are not in the order hours, minutes, seconds, such as 5s2m
\* and 1m2m.
C23_UnitOrder ==
    /\ (DurationSet /\ Misordered(result.arg)) => result.exc = "Panic"
    /\ (DurationSet /\ result.arg \in {<<"5","s","2","m">>, <<"1","m","2","m">>})
       => result.exc = "Panic"

\* The string ends with characters that no unit follows.
TrailingFragment(s) == s # <<>> /\ ~IsUnit(s[Len(s)])

\* The text of the component that ends with the unit at position i: what
\* lies between the unit before it, or the start, and position i.
ComponentText(s, i) ==
    LET before == {k \in 1..(i - 1) : IsUnit(s[k])}
        start  == IF before = {} THEN 1
                  ELSE 1 + CHOOSE k \in before : \A l \in before : l <= k
    IN  SubSeq(s, start, i - 1)

\* An integer in decimal digits, with or without a sign.
IsInteger(t) ==
    LET body == IF t # <<>> /\ t[1] \in {"-", "+"} THEN Tail(t) ELSE t
    IN  body # <<>> /\ \A k \in 1..Len(body) : IsDigit(body[k])

NonIntegerComponent(s) ==
    \E i \in 1..Len(s) : IsUnit(s[i]) /\ ~IsInteger(ComponentText(s, i))

\* C24: parse_duration faults on every string that ends with characters no
\* unit follows, such as 5m3 and 90, and on every string with a component
\* whose text before the unit is not an integer; a duration it returns is
\* never that of a prefix of the string alone.
C24_WholeString ==
    /\ (DurationSet /\ TrailingFragment(result.arg)) => result.exc = "Panic"
    /\ (DurationSet /\ NonIntegerComponent(result.arg))
       => result.exc = "Panic"

\* parse is about to look at a declared int, float or duration flag, and the
\* text the command line gives it, inline or as the next token, is one its
\* Value cannot parse.
AtMalformedValue ==
    /\ AtDeclaredFlag
    /\ formal[FlagForm(Head(args)).name].kind \in {"Int", "Float", "Duration"}
    /\ LET f == FlagForm(Head(args))
       IN  /\ f.has_value \/ Len(args) >= 2
           /\ set_value(formal[f.name].kind, 0,
                        IF f.has_value THEN f.value ELSE args[2],
                        "return").exc # "none"

\* C25: a value that the flag's Value cannot parse makes parse fail with
\* the recoverable "invalid value" Error, surfaced the way the policy says:
\* under RaiseOnError the caller of parse receives an Error, not a Panic
\* and not a raw exception, and the stored value is left as it was.
C25_InvalidValue ==
    [][ AtMalformedValue
        => /\ FailedWith(pc', outcome', error_handling, "invalid value")
           /\ error_handling = "RaiseOnError"
                => isinstance_Error(outcome'.exc.cls)
           /\ UNCHANGED <<cell, actual>> ]_vars

\* parse is looking at a declared func or bool_func flag, and this step
\* calls its callback.
CallbackStep ==
    /\ AtDeclaredFlag
    /\ formal[FlagForm(Head(args)).name].kind \in {"Func", "BoolFunc"}
    /\ Len(calls') = Len(calls) + 1

\* C26: when the callback of a func or bool_func flag has been called
\* during parse, either it returned and parse goes on with the flag
\* recorded, or it raised and parse fails with the "invalid value" Error
\* for that flag, surfaced the way the policy says; no other exception
\* leaves parse.
C26_CallbackFailure ==
    [][ CallbackStep
        => \/ /\ pc' = "scanning"
              /\ outcome'.exc.cls = "none"
              /\ FlagForm(Head(args)).name \in DOMAIN actual'
           \/ FailedWith(pc', outcome', error_handling, "invalid value") ]_vars

\* parse is about to look at a flag that was declared with bool_func,
\* written without an inline value.
AtBareBoolFunc ==
    /\ AtDeclaredFlag
    /\ ~FlagForm(Head(args)).has_value
    /\ formal[FlagForm(Head(args)).name].kind \in {"Func", "BoolFunc"}
    /\ cell[FlagForm(Head(args)).name] = "bool_fn"

\* C27: a flag declared with bool_func is a boolean flag: met as -name with
\* no =value, its callback is called with the text true and only the
\* flag's own token leaves args, so that the next token is not taken as
\* its value.
C27_BoolFuncIsBoolFlag ==
    [][ AtBareBoolFunc
        => /\ calls' = Append(calls, [name |-> FlagForm(Head(args)).name,
                                      value |-> <<"t","r","u","e">>])
           /\ args' = Tail(args) ]_vars

\* C28: a bool Value set from one of 1, t, T, TRUE, true, True holds true,
\* set from one of 0, f, F, FALSE, false, False holds false, and set from
\* any other string, the empty one included, fails to parse and holds what
\* it held before.
C28_BoolLiterals ==
    [][ (val.kind = "Bool" /\ result'.op = "set")
        => IF result'.arg \in { <<"1">>, <<"t">>, <<"T">>,
                                <<"T","R","U","E">>, <<"t","r","u","e">>,
                                <<"T","r","u","e">> }
           THEN result'.exc = "none" /\ val'.v = TRUE
           ELSE IF result'.arg \in { <<"0">>, <<"f">>, <<"F">>,
                                     <<"F","A","L","S","E">>,
                                     <<"f","a","l","s","e">>,
                                     <<"F","a","l","s","e">> }
           THEN result'.exc = "none" /\ val'.v = FALSE
           ELSE result'.exc = "SyntaxError" /\ val'.v = val.v ]_vars

\* A bool Value that holds true has been set from the empty string: the
\* call failed and the Value still holds true.
C28_Witness ==
    /\ val.kind = "Bool"
    /\ result.op = "set"
    /\ result.arg = <<>>
    /\ result.exc = "SyntaxError"
    /\ val.v = TRUE

\* C29: a write of a value other than None through a Ptr, an AttrRef or a
\* KeyRef succeeds and leaves that value where the handle refers to, for an
\* AttrRef or a KeyRef in the caller's attribute or entry, and a read
\* through the handle right after the write returns the value written.
C29_WriteThenRead ==
    [][ /\ (result'.op = "set_" /\ result'.arg # None)
           => (result'.exc = "none" /\ handle'.at = result'.arg)
        /\ (result.op = "set_" /\ result.arg # None /\ result'.op = "deref")
           => (result'.exc = "none" /\ result'.ret = result.arg) ]_vars

\* C30: is_nil on a Ptr, an AttrRef or a KeyRef raises nothing and changes
\* nothing; it returns true exactly when the handle refers to no value (to
\* None, or to an attribute or a key that is absent), and a read that
\* follows it fails with the nil-dereference Panic exactly when it returned
\* true.
C30_IsNil ==
    [][ /\ result'.op = "is_nil"
           => /\ result'.exc = "none"
              /\ handle' = handle
              /\ result'.ret = "True" <=> handle.at \in {None, Absent}
        /\ (result.op = "is_nil" /\ result'.op = "deref")
           => (result.ret = "True" <=> result'.exc = "Panic") ]_vars

\* The step is a call of init.
InitStep == outcome'.op = "init"

\* C31: after init() the default FlagSet has no declared flags, no set
\* flags, empty args, parsed false and the ExitOnError policy, whatever the
\* previous instance held, and a declaration that follows init() under a
\* valid name is not refused as a redefinition, also of a name the previous
\* instance had declared.
C31_InitIsFresh ==
    [][ /\ InitStep
           => /\ formal' = <<>>
              /\ actual' = <<>>
              /\ args' = <<>>
              /\ parsed' = FALSE
              /\ error_handling' = "ExitOnError"
        /\ (outcome.op = "init" /\ outcome'.op = "var")
           => /\ outcome'.exc.cls = "none"
              /\ DOMAIN formal' = {outcome'.name} ]_vars

\* The func flag c was declared on a FlagSet that has parsed and called its
\* callback; after init() it has been declared again, on a FlagSet that has
\* not parsed.
C31_Witness ==
    /\ parses > 0
    /\ calls # <<>>
    /\ ~parsed
    /\ outcome = Outcome("var", NoException, <<"c">>, "Func")
    /\ DOMAIN formal = {<<"c">>}
    /\ actual = <<>>

\* C32: lookup(name) returns the Flag declared under name and returns None
\* when no flag is declared under it; it raises nothing and leaves every
\* field of the FlagSet as it was.
C32_Lookup ==
    [][ outcome'.op = "lookup"
        => /\ outcome'.exc.cls = "none"
           /\ result'.exc = "none"
           /\ result'.ret = IF result'.arg \in DOMAIN formal
                            THEN formal[result'.arg] ELSE None
           /\ UNCHANGED <<error_handling, parsed, formal, actual, args,
                          undef, cell>> ]_vars

\* C33: parse terminates: an iteration of its loop after which the loop
\* goes on has taken at least one token from args, args is never longer
\* than the list parse was given, and a parse that is under way always
\* comes to its end.
C33_Terminates ==
    /\ [][ (pc = "scanning" /\ pc' = "scanning")
           => Len(args') < Len(args) ]_vars
    /\ [](pc = "scanning" => Len(args) <= Len(arguments))
    /\ (pc = "scanning") ~> (pc # "scanning")

\* parse of [-n, 2, -n, 1] has gone twice through its loop and returned
\* with nothing left in args.
C33_Witness ==
    /\ pc = "idle"
    /\ parsed
    /\ outcome = Outcome("parse", NoException, <<>>, "")
    /\ arguments = << <<"-","n">>, <<"2">>, <<"-","n">>, <<"1">> >>
    /\ args = <<>>
    /\ <<"n">> \in DOMAIN actual

\* a is what is left of b when tokens are taken from its front.
IsSuffix(a, b) ==
    /\ Len(a) <= Len(b)
    /\ a = SubSeq(b, Len(b) - Len(a) + 1, Len(b))

\* C34: in every state during and after parse(arguments), also when parse
\* has failed, args is a suffix of the list parse was given: tokens leave
\* args from the front only and none is changed, moved or added.
C34_ArgsIsSuffix ==
    /\ IsSuffix(args, arguments)
    /\ ~parsed => args = <<>>

\* parse of two tokens has failed at the first, and the second is what is
\* left in args.
C34_Witness ==
    /\ ParseFailed
    /\ Len(arguments) = 2
    /\ arguments[1] # arguments[2]
    /\ args = <<arguments[2]>>

\* C35: whatever var, set and parse calls have been made, every name in
\* actual is declared, and actual holds for it the Flag that formal holds.
C35_ActualWithinFormal ==
    \A name \in DOMAIN actual :
        /\ name \in DOMAIN formal
        /\ actual[name] = formal[name]

\* Two flags are declared; one has been set by name and the other by the
\* parse that followed, and both are in actual.
C35_Witness ==
    /\ parsed
    /\ pc = "idle"
    /\ arguments = << <<"-","n","=","1">> >>
    /\ DOMAIN actual = {<<"b">>, <<"n">>}
    /\ DOMAIN formal = {<<"b">>, <<"n">>}
    /\ actual[<<"b">>] = formal[<<"b">>]

\* C36: the step at which parse fails undoes nothing and records nothing:
\* the flags set by the tokens before it stay in actual with the values
\* those tokens gave them, and the flag of the failing token is not added
\* to actual.
C36_NoRollback ==
    [][ FailingStep
        => /\ actual' = actual
           /\ cell' = cell
           /\ IsFlagToken(Head(args))
                => (FlagForm(Head(args)).name \in DOMAIN actual'
                    <=> FlagForm(Head(args)).name \in DOMAIN actual) ]_vars

\* parse of [-b, -z] has set b to true and then failed at the undeclared
\* z: b is in actual and still true.
C36_Witness ==
    /\ ParseFailed
    /\ arguments = << <<"-","b">>, <<"-","z">> >>
    /\ DOMAIN actual = {<<"b">>}
    /\ cell[<<"b">>] = TRUE

\* C37: a flag token is cut at its first = only: what precedes it is the
\* name and all that follows, further = signs included, is the inline
\* value. An inline value, the empty one of -name= too, is the value a
\* flag that needs one takes, and the next token stays in args: -help=1=x
\* gives the string flag help the value 1=x, and -help= the empty string.
C37_SplitAtFirstEquals ==
    [][ (/\ AtDeclaredFlag
         /\ FlagForm(Head(args)).has_value
         /\ formal[FlagForm(Head(args)).name].kind \notin {"Bool", "BoolFunc"})
        => LET f == FlagForm(Head(args))
           IN  /\ args' = Tail(args)
               /\ formal[f.name].kind = "String"
                    => /\ cell'[f.name] = f.value
                       /\ f.name \in DOMAIN actual'
                       /\ pc' = "scanning"
               /\ formal[f.name].kind = "Func"
                    => calls' = Append(calls, [name |-> f.name,
                                               value |-> f.value])
               /\ (Head(args) = <<"-","h","e","l","p","=","1","=","x">>
                   /\ formal[f.name].kind = "String")
                    => cell'[<<"h","e","l","p">>] = <<"1","=","x">>
               /\ (Head(args) = <<"-","h","e","l","p","=">>
                   /\ formal[f.name].kind = "String")
                    => cell'[<<"h","e","l","p">>] = <<>> ]_vars

\* parse of [-help=, 1] has given the string flag help the empty string and
\* stopped at the token 1, which is left in args.
C37_Witness ==
    /\ pc = "idle"
    /\ outcome = Outcome("parse", NoException, <<>>, "")
    /\ arguments = << <<"-","h","e","l","p","=">>, <<"1">> >>
    /\ args = << <<"1">> >>
    /\ <<"h","e","l","p">> \in DOMAIN actual
    /\ cell[<<"h","e","l","p">>] = <<>>

\* parse is at an occurrence of a declared flag that comes with a value:
\* inline, as the next token, or as the true of a bare boolean flag.
AtOccurrence ==
    /\ AtDeclaredFlag
    /\ \/ FlagForm(Head(args)).has_value
       \/ Len(args) >= 2
       \/ formal[FlagForm(Head(args)).name].kind = "Bool"

\* The text parse hands to the Value at this occurrence.
OccurrenceText ==
    LET f == FlagForm(Head(args))
    IN  IF f.has_value THEN f.value
        ELSE IF formal[f.name].kind = "Bool" THEN <<"t","r","u","e">>
        ELSE args[2]

\* C38: parse calls the Value's set once for each occurrence of a flag it
\* comes to, in command-line order: the callback of a func flag is called
\* once per occurrence with the value of that occurrence and at no other
\* step, a typed flag holds after each occurrence the value that occurrence
\* gave, so that the last one stands, and actual has the one entry of the
\* flag.
C38_SetOncePerOccurrence ==
    /\ [][ IF AtOccurrence /\ formal[FlagForm(Head(args)).name].kind = "Func"
           THEN calls' = Append(calls, [name |-> FlagForm(Head(args)).name,
                                        value |-> OccurrenceText])
           ELSE calls' = calls ]_vars
    /\ [][ (/\ AtOccurrence
            /\ formal[FlagForm(Head(args)).name].kind \in {"Bool", "Int", "String"}
            /\ pc' = "scanning")
           => LET name == FlagForm(Head(args)).name
              IN  /\ formal[name].kind = "String"
                       => cell'[name] = OccurrenceText
                  /\ formal[name].kind = "Int"
                       => cell'[name] = int_value(OccurrenceText)
                  /\ formal[name].kind = "Bool"
                       => cell'[name] = (OccurrenceText[1] \in {"1", "t", "T"})
                  /\ name \in DOMAIN actual' ]_vars
    /\ [](/\ (/\ ParseSucceeded
              /\ parses = 1
              /\ arguments = << <<"-","n">>, <<"2">>, <<"-","n">>, <<"1">> >>
              /\ <<"n">> \in DOMAIN formal)
             => (cell[<<"n">>] = 1 /\ <<"n">> \in DOMAIN actual)
          /\ (/\ ParseSucceeded
              /\ parses = 1
              /\ arguments = << <<"-","b","=","f">>, <<"-","b">> >>
              /\ <<"b">> \in DOMAIN formal)
             => (cell[<<"b">>] = TRUE /\ <<"b">> \in DOMAIN actual))

\* parse of [-c, 1, -c, x] has called the callback of c with 1 and then
\* with x, and c is in actual.
C38_Witness ==
    /\ pc = "idle"
    /\ outcome = Outcome("parse", NoException, <<>>, "")
    /\ arguments = << <<"-","c">>, <<"1">>, <<"-","c">>, <<"x">> >>
    /\ calls = << [name |-> <<"c">>, value |-> <<"1">>],
                  [name |-> <<"c">>, value |-> <<"x">>] >>
    /\ DOMAIN actual = {<<"c">>}

\* C39: a parse call on a FlagSet that has parsed before works on the same
\* formal and actual: the call itself changes neither, no step but init
\* takes a flag out of actual or changes its entry, and args is set to the
\* list of the new call, of which it stays a suffix.
C39_SecondParse ==
    /\ [][ (parsed /\ pc = "idle" /\ pc' = "scanning")
           => /\ args' = arguments'
              /\ UNCHANGED <<formal, actual, cell>> ]_vars
    /\ [][ ~InitStep
           => \A name \in DOMAIN actual :
                 /\ name \in DOMAIN actual'
                 /\ actual'[name] = actual[name] ]_vars
    /\ [](parsed => IsSuffix(args, arguments))

\* A first parse has called the callback of c twice; a second parse, of
\* [-b, 1], has set b and left 1 in args, and c is still in actual.
C39_Witness ==
    /\ parses = 2
    /\ pc = "idle"
    /\ outcome = Outcome("parse", NoException, <<>>, "")
    /\ calls = << [name |-> <<"c">>, value |-> <<"1">>],
                  [name |-> <<"c">>, value |-> <<"x">>] >>
    /\ arguments = << <<"-","b">>, <<"1">> >>
    /\ args = << <<"1">> >>
    /\ DOMAIN actual = {<<"b">>, <<"c">>}

\* C40: parsed is false on a FlagSet on which parse has not been called,
\* the call of parse makes it true, and it is true in every later state,
\* whether the parse succeeded or failed; var, set and lookup leave it as
\* it is.
C40_ParsedFlag ==
    /\ [][ /\ outcome'.op = "parse" => parsed'
           /\ outcome'.op \in {"var", "set", "lookup"} => parsed' = parsed
           /\ (parsed /\ ~InitStep) => parsed' ]_vars
    /\ [](/\ outcome.op = "init" => ~parsed
          /\ ~parsed => (arguments = <<>> /\ pc # "scanning"))

\* Under RaiseOnError a parse has failed, and a flag has been declared
\* after it: parsed is still true.
C40_Witness ==
    /\ parsed
    /\ error_handling = "RaiseOnError"
    /\ usage_calls = 1
    /\ outcome.op = "var"
    /\ outcome.exc.cls = "none"

====
